---- MODULE Spec2Model ----
(***************************************************************************)
(* A model of op-releaser.py: the release pipeline run_release and the     *)
(* helpers it calls.  Text is modelled as sequences of one-character       *)
(* strings, so that formatting, parsing, searching and replacing are       *)
(* computed the way the Python code computes them.                         *)
(***************************************************************************)
EXTENDS Integers, Sequences, FiniteSets, TLC

VARIABLES
    repoKind,        \* what Repo(os.curdir) finds: "none", "bare" or "worktree"
    manifestExists,  \* Path('info.toml').exists()
    manifest,        \* the text of info.toml
    commits,         \* the commits this tool added to the history, oldest first
    tags,            \* the tags of the repository: records [name, commit]
    opFiles,         \* the ./*.op files: "none", "clean" (as in HEAD) or "dirty"
    pc,              \* the position of run_release
    err,             \* the exception that ended the run, "" if none
    failedAt,        \* the step that raised it, "" if none
    bump_level,      \* run_release's argument
    prior_ver,       \* run_release's local prior_ver (<<>> before it is set)
    ver,             \* run_release's local ver (<<>> before it is set)
    start,           \* the manifest, commits and tags when the run started, and
                     \* the version the last earlier run wrote (<<>> if none)
    log,             \* the steps the run has entered so far, in order
    exitStatus,      \* the exit status of ./build.sh in this run, -1 before it ran
    runs,            \* how many invocations there have been
    doneRuns,        \* how many of them returned normally
    origin           \* the text of info.toml before the first invocation

vars == <<repoKind, manifestExists, manifest, commits, tags, opFiles, pc, err,
          failedAt, bump_level, prior_ver, ver, start, log, exitStatus, runs, doneRuns, origin>>

env == <<repoKind, manifestExists, origin>>

(* ------------------------------ bounds --------------------------------- *)

MaxRuns == 3     \* invocations of run_release in one behaviour
MaxComp == 3     \* largest version component drawn for bump_version
MaxPriorComp == 1 \* largest version component drawn for update_info_toml_version
MaxLen == 7      \* longest manifest text drawn for update_info_toml_version
MaxRoundTrip == 11 \* every component up to it is drawn for the round trip
MaxLiveRuns == 2 \* invocations in one behaviour where termination is checked

(* ------------------------------- text ---------------------------------- *)

Dot == "."
Sep == "|"       \* any TOML syntax between two values (quotes, keys, newlines)

DigitChars == <<"0", "1", "2", "3", "4", "5", "6", "7", "8", "9">>
DigitSet == {DigitChars[i] : i \in 1..10}
DigitVal(c) == (CHOOSE i \in 1..10 : DigitChars[i] = c) - 1

RECURSIVE IntToStr(_)
IntToStr(n) ==
    IF n < 10 THEN <<DigitChars[n + 1]>>
    ELSE IntToStr(n \div 10) \o <<DigitChars[(n % 10) + 1]>>

IsIntStr(s) == Len(s) > 0 /\ \A i \in 1..Len(s) : s[i] \in DigitSet

RECURSIVE StrToInt(_)
StrToInt(s) ==
    IF Len(s) = 0 THEN 0
    ELSE 10 * StrToInt(SubSeq(s, 1, Len(s) - 1)) + DigitVal(s[Len(s)])

RECURSIVE Split(_, _)
Split(s, sep) ==
    IF \A i \in 1..Len(s) : s[i] # sep THEN <<s>>
    ELSE LET i == CHOOSE j \in 1..Len(s) :
                      s[j] = sep /\ \A k \in 1..(j - 1) : s[k] # sep
         IN  <<SubSeq(s, 1, i - 1)>> \o Split(SubSeq(s, i + 1, Len(s)), sep)

OccursAt(s, sub, i) ==
    /\ i >= 0
    /\ i + Len(sub) <= Len(s)
    /\ SubSeq(s, i + 1, i + Len(sub)) = sub

Positions(s, sub) == {i \in 0..Len(s) : OccursAt(s, sub, i)}

Contains(s, sub) == Positions(s, sub) # {}

Find(s, sub) ==
    IF Positions(s, sub) = {} THEN -1
    ELSE CHOOSE i \in Positions(s, sub) : \A j \in Positions(s, sub) : i <= j

RFind(s, sub) ==
    IF Positions(s, sub) = {} THEN -1
    ELSE CHOOSE i \in Positions(s, sub) : \A j \in Positions(s, sub) : i >= j

RECURSIVE Replace(_, _, _)
Replace(s, old, new) ==
    IF Find(s, old) = -1 THEN s
    ELSE LET i == Find(s, old)
         IN  SubSeq(s, 1, i) \o new
                 \o Replace(SubSeq(s, i + Len(old) + 1, Len(s)), old, new)

(* ----------------------------- versions -------------------------------- *)

version_to_str(v) ==
    IntToStr(v[1]) \o <<Dot>> \o IntToStr(v[2]) \o <<Dot>> \o IntToStr(v[3])

version_from_str_ok(s) ==
    /\ Len(Split(s, Dot)) = 3
    /\ \A i \in 1..3 : IsIntStr(Split(s, Dot)[i])

version_from_str_dup(s) ==
    <<StrToInt(Split(s, Dot)[1]), StrToInt(Split(s, Dot)[2]),
      StrToInt(Split(s, Dot)[2])>>

version_from_str(s) ==
    <<StrToInt(Split(s, Dot)[1]), StrToInt(Split(s, Dot)[2]),
      StrToInt(Split(s, Dot)[3])>>

BumpKinds == {"major", "minor", "patch"}

bump_version_ok(level) == level \in BumpKinds

bump_version_keeps_lower(v, level) ==
    IF level = "major" THEN <<v[1] + 1, v[2], v[3]>>
    ELSE IF level = "minor" THEN <<v[1], v[2] + 1, v[3]>>
    ELSE <<v[1], v[2], v[3] + 1>>

bump_version(v, level) ==
    IF level = "major" THEN <<v[1] + 1, 0, 0>>
    ELSE IF level = "minor" THEN <<v[1], v[2] + 1, 0>>
    ELSE <<v[1], v[2], v[3] + 1>>

(* ------------------------- the manifest writer ------------------------- *)

update_error_first_only(exists, info_str, prior, new) ==
    IF ~exists THEN "MissingManifest"
    ELSE IF ~Contains(info_str, version_to_str(prior)) THEN "VersionNotFound"
    ELSE ""

\* The exception update_info_toml_version raises on this text, "" if none.
update_error(exists, info_str, prior, new) ==
    IF ~exists THEN "MissingManifest"
    ELSE IF ~Contains(info_str, version_to_str(prior)) THEN "VersionNotFound"
    ELSE IF Find(info_str, version_to_str(prior))
                # RFind(info_str, version_to_str(prior)) THEN "AmbiguousVersion"
    ELSE ""

update_text_swapped(info_str, prior, new) ==
    Replace(info_str, version_to_str(new), version_to_str(prior))

\* The text update_info_toml_version writes back when it raises nothing.
update_text(info_str, prior, new) ==
    Replace(info_str, version_to_str(prior), version_to_str(new))

(* ------------------------------ the steps ------------------------------ *)

Snapshot ==
    [manifest |-> manifest, commits |-> commits, tags |-> tags, wrote |-> <<>>]

Enter(step) == log' = Append(log, step)

Abort_swallowed(step, e) ==
    /\ pc' = IF step = "check_repo" THEN "RepoChecked" ELSE "Aborted"
    /\ err' = e
    /\ failedAt' = step

\* A raise: run_release catches nothing, so the run ends there.
Abort(step, e) ==
    /\ pc' = "Aborted"
    /\ err' = e
    /\ failedAt' = step

Goto(next) ==
    /\ pc' = next
    /\ UNCHANGED <<err, failedAt>>

GitCheckInRepo_bare_passes ==
    /\ pc = "Start"
    /\ Enter("check_repo")
    /\ IF repoKind # "none" THEN Goto("RepoChecked")
       ELSE Abort("check_repo", "NotARepository")
    /\ UNCHANGED <<env, manifest, commits, tags, opFiles, bump_level,
                   prior_ver, ver, start, exitStatus, runs, doneRuns>>

\* Repo(os.curdir) raises outside a repository; a bare one makes
\* git_check_in_repo return False and run_release raise.
GitCheckInRepo ==
    /\ pc = "Start"
    /\ Enter("check_repo")
    /\ IF repoKind = "worktree" THEN Goto("RepoChecked")
       ELSE Abort("check_repo", "NotARepository")
    /\ UNCHANGED <<env, manifest, commits, tags, opFiles, bump_level,
                   prior_ver, ver, start, exitStatus, runs, doneRuns>>

\* toml.load gives the values of the file; the first is meta.version and the
\* second meta.name, and a file without both raises KeyError.
TomlValues(info_str) == Split(info_str, Sep)

read_error(exists, info_str) ==
    IF ~exists THEN "MissingManifest"
    ELSE IF Len(TomlValues(info_str)) < 2 THEN "KeyError"
    ELSE IF ~version_from_str_ok(TomlValues(info_str)[1]) THEN "MalformedVersion"
    ELSE ""

read_info_toml_version(info_str) == version_from_str(TomlValues(info_str)[1])

ReadInfoTomlVersion ==
    /\ pc = "RepoChecked"
    /\ Enter("read")
    /\ IF read_error(manifestExists, manifest) = ""
       THEN /\ prior_ver' = read_info_toml_version(manifest)
            /\ Goto("VersionRead")
       ELSE /\ Abort("read", read_error(manifestExists, manifest))
            /\ UNCHANGED prior_ver
    /\ UNCHANGED <<env, manifest, commits, tags, opFiles, bump_level, ver,
                   start, exitStatus, runs, doneRuns>>

BumpVersion ==
    /\ pc = "VersionRead"
    /\ Enter("bump")
    /\ IF bump_version_ok(bump_level)
       THEN /\ ver' = bump_version(prior_ver, bump_level)
            /\ Goto("VersionBumped")
       ELSE /\ Abort("bump", "InvalidBumpKind")
            /\ UNCHANGED ver
    /\ UNCHANGED <<env, manifest, commits, tags, opFiles, bump_level,
                   prior_ver, start, exitStatus, runs, doneRuns>>

UpdateInfoTomlVersion_writes_first ==
    /\ pc = "VersionBumped"
    /\ Enter("write")
    /\ manifest' = IF manifestExists THEN update_text(manifest, prior_ver, ver)
                   ELSE manifest
    /\ IF update_error(manifestExists, manifest, prior_ver, ver) = ""
       THEN Goto("ManifestWritten")
       ELSE Abort("write", update_error(manifestExists, manifest, prior_ver, ver))
    /\ UNCHANGED <<env, commits, tags, opFiles, bump_level, prior_ver, ver,
                   start, exitStatus, runs, doneRuns>>

UpdateInfoTomlVersion ==
    /\ pc = "VersionBumped"
    /\ Enter("write")
    /\ IF update_error(manifestExists, manifest, prior_ver, ver) = ""
       THEN /\ manifest' = update_text(manifest, prior_ver, ver)
            /\ Goto("ManifestWritten")
       ELSE /\ Abort("write", update_error(manifestExists, manifest, prior_ver, ver))
            /\ UNCHANGED manifest
    /\ UNCHANGED <<env, commits, tags, opFiles, bump_level, prior_ver, ver,
                   start, exitStatus, runs, doneRuns>>

\* git add info.toml; git commit -m "Version: <ver>".  The commit can fail for
\* reasons outside the tool (nothing to commit, a hook, no identity).
VersionCommit(v) ==
    [message |-> <<"Version: ", version_to_str(v)>>, paths |-> "info.toml",
     manifest |-> manifest]

GitCommitVersionCommit ==
    /\ pc = "ManifestWritten"
    /\ Enter("commit_version")
    /\ \E ok \in BOOLEAN :
          IF ok
          THEN /\ commits' = Append(commits, VersionCommit(ver))
               /\ Goto("ManifestCommitted")
          ELSE /\ Abort("commit_version", "GitCommandError")
               /\ UNCHANGED commits
    /\ UNCHANGED <<env, manifest, tags, opFiles, bump_level, prior_ver, ver,
                   start, exitStatus, runs, doneRuns>>

\* git tag <ver>: refused when a tag of that name exists.
TagNames(ts) == {t.name : t \in ts}

git_tag_prefixed(ts, name, head) ==
    ts \cup {[name |-> <<"v">> \o name, commit |-> head]}

git_tag(ts, name, head) ==
    ts \cup {[name |-> name, commit |-> head]}

GitCommitVersionTag_forced ==
    /\ pc = "ManifestCommitted"
    /\ Enter("tag_version")
    /\ tags' = git_tag({t \in tags : t.name # version_to_str(ver)},
                       version_to_str(ver), Len(commits))
    /\ Goto("VersionCommitted")
    /\ UNCHANGED <<env, manifest, commits, opFiles, bump_level, prior_ver, ver,
                   start, exitStatus, runs, doneRuns>>

GitCommitVersionTag_rolls_back ==
    /\ pc = "ManifestCommitted"
    /\ Enter("tag_version")
    /\ IF version_to_str(ver) \in TagNames(tags)
       THEN /\ Abort("tag_version", "TagAlreadyExists")
            /\ commits' = start.commits
            /\ UNCHANGED tags
       ELSE /\ tags' = git_tag(tags, version_to_str(ver), Len(commits))
            /\ Goto("VersionCommitted")
            /\ UNCHANGED commits
    /\ UNCHANGED <<env, manifest, opFiles, bump_level, prior_ver, ver,
                   start, exitStatus, runs, doneRuns>>

GitCommitVersionTag ==
    /\ pc = "ManifestCommitted"
    /\ Enter("tag_version")
    /\ IF version_to_str(ver) \in TagNames(tags)
       THEN /\ Abort("tag_version", "TagAlreadyExists")
            /\ UNCHANGED tags
       ELSE /\ tags' = git_tag(tags, version_to_str(ver), Len(commits))
            /\ Goto("VersionCommitted")
    /\ UNCHANGED <<env, manifest, commits, opFiles, bump_level, prior_ver, ver,
                   start, exitStatus, runs, doneRuns>>

BuildPlugin_before_commit ==
    /\ pc = "ManifestWritten"
    /\ Enter("build")
    /\ \E files \in {"none", "clean", "dirty"}, status \in {0, 1},
          decodes \in BOOLEAN :
          /\ opFiles' = files
          /\ exitStatus' = status
          /\ IF decodes THEN Goto("Built")
             ELSE Abort("build", "UnicodeDecodeError")
    /\ UNCHANGED <<env, manifest, commits, tags, bump_level, prior_ver, ver,
                   start, runs, doneRuns>>

\* ./build.sh release: it leaves the artifacts in any state and exits with
\* any status; its output is decoded as UTF-8 for the log, which raises
\* UnicodeDecodeError on other bytes.  The exit status is not looked at.
BuildPlugin ==
    /\ pc = "VersionCommitted"
    /\ Enter("build")
    /\ \E files \in {"none", "clean", "dirty"}, status \in {0, 1},
          decodes \in BOOLEAN :
          /\ opFiles' = files
          /\ exitStatus' = status
          /\ IF decodes THEN Goto("Built")
             ELSE Abort("build", "UnicodeDecodeError")
    /\ UNCHANGED <<env, manifest, commits, tags, bump_level, prior_ver, ver,
                   start, runs, doneRuns>>

\* git add "./*.op" fails when no file matches; git commit fails when nothing
\* is staged that differs from HEAD, or for reasons outside the tool.
ReleaseCommit(v) ==
    [message |-> <<"Release: ", version_to_str(v)>>, paths |-> "./*.op",
     manifest |-> manifest]

GitCommitNewRelease_retries ==
    /\ pc = "Built"
    /\ \E ok \in BOOLEAN :
          IF opFiles = "dirty" /\ ok
          THEN /\ commits' = Append(commits, ReleaseCommit(ver))
               /\ opFiles' = "clean"
               /\ doneRuns' = doneRuns + 1
               /\ Enter("commit_release")
               /\ Goto("Done")
          ELSE /\ Goto("VersionCommitted")
               /\ log' = SubSeq(log, 1, 6)
               /\ UNCHANGED <<commits, opFiles, doneRuns>>
    /\ UNCHANGED <<env, manifest, tags, bump_level, prior_ver, ver, start,
                   exitStatus, runs>>

GitCommitNewRelease ==
    /\ pc = "Built"
    /\ Enter("commit_release")
    /\ \E ok \in BOOLEAN :
          IF opFiles = "dirty" /\ ok
          THEN /\ commits' = Append(commits, ReleaseCommit(ver))
               /\ opFiles' = "clean"
               /\ doneRuns' = doneRuns + 1
               /\ Goto("Done")
          ELSE /\ Abort("commit_release", "GitCommandError")
               /\ UNCHANGED <<commits, opFiles, doneRuns>>
    /\ UNCHANGED <<env, manifest, tags, bump_level, prior_ver, ver, start,
                   exitStatus, runs>>

BumpLevels == BumpKinds \cup {"other"}

\* The next invocation of the tool in the same working directory.
NewRun ==
    /\ pc \in {"Done", "Aborted"}
    /\ runs < MaxRuns
    /\ runs' = runs + 1
    /\ pc' = "Start"
    /\ err' = ""
    /\ failedAt' = ""
    /\ bump_level' \in BumpLevels
    /\ prior_ver' = <<>>
    /\ ver' = <<>>
    /\ start' = [Snapshot EXCEPT
                     !.wrote = IF manifest # start.manifest THEN ver
                               ELSE start.wrote]
    /\ log' = <<>>
    /\ exitStatus' = -1
    /\ UNCHANGED <<env, manifest, commits, tags, opFiles, doneRuns>>

(* --------------------------- the release runs -------------------------- *)

V(a, b, c) == version_to_str(<<a, b, c>>)

Manifest(version, rest) == version \o <<Sep>> \o rest

InitManifests ==
    { Manifest(V(1, 0, 0), <<>>),
      Manifest(V(1, 0, 0), V(1, 0, 1)),
      Manifest(V(1, 0, 0), V(1, 1, 1)),
      Manifest(V(1, 0, 0), V(1, 0, 0)),
      Manifest(V(0, 9, 9), <<>>),
      Manifest(<<"1", ".", "0", "0", ".", "0">>, V(1, 0, 0)),
      Manifest(<<"1", ".", "0", "0", ".", "0">>, <<"1", ".", "0", ".", "0", ".", "0">>),
      Manifest(<<"1", ".", "0", "0", ".", "0">>, <<>>),
      Manifest(<<"0", "1", ".", "0", ".", "0">>, <<>>),
      Manifest(<<"1", ".", "0">>, <<>>),
      Manifest(<<"1", ".", "x", ".", "0">>, <<>>),
      V(1, 0, 0) }

InitTagSets ==
    { {}, {[name |-> V(1, 0, 1), commit |-> 0]}, {[name |-> V(2, 0, 0), commit |-> 0]},
      {[name |-> V(0, 9, 0), commit |-> 0]} }

Init ==
    /\ repoKind \in {"none", "bare", "worktree"}
    /\ manifestExists \in BOOLEAN
    /\ manifest \in InitManifests
    /\ commits = <<>>
    /\ tags \in InitTagSets
    /\ opFiles = "none"
    /\ pc = "Start"
    /\ err = ""
    /\ failedAt = ""
    /\ bump_level \in BumpLevels
    /\ prior_ver = <<>>
    /\ ver = <<>>
    /\ start = Snapshot
    /\ log = <<>>
    /\ exitStatus = -1
    /\ runs = 1
    /\ doneRuns = 0
    /\ origin = manifest

Next ==
    \/ GitCheckInRepo
    \/ ReadInfoTomlVersion
    \/ BumpVersion
    \/ UpdateInfoTomlVersion
    \/ GitCommitVersionCommit
    \/ GitCommitVersionTag
    \/ BuildPlugin
    \/ GitCommitNewRelease
    \/ NewRun

Spec == Init /\ [][Next]_vars

\* The steps of one invocation.  Each is a call that returns or raises (the
\* git commands and the build script end), so a run that can take its next
\* step takes it; nothing makes the operator invoke the tool again.
RunStep ==
    \/ GitCheckInRepo
    \/ ReadInfoTomlVersion
    \/ BumpVersion
    \/ UpdateInfoTomlVersion
    \/ GitCommitVersionCommit
    \/ GitCommitVersionTag
    \/ BuildPlugin
    \/ GitCommitNewRelease

\* Fewer starting points, with every step's success and failure among them.
InitLive ==
    /\ Init
    /\ manifest \in { Manifest(V(1, 0, 0), <<>>),
                       Manifest(V(1, 0, 0), V(1, 0, 1)),
                       Manifest(<<"1", ".", "0">>, <<>>) }
    /\ tags \in { {}, {[name |-> V(1, 0, 1), commit |-> 0]} }
    /\ bump_level \in {"patch", "other"}

NextLive == RunStep \/ (runs < MaxLiveRuns /\ NewRun)

SpecLive == InitLive /\ [][NextLive]_vars /\ WF_vars(RunStep)

(* ------------------- bump_version on drawn arguments ------------------- *)

Versions(n) == {<<a, b, c>> : a \in 0..n, b \in 0..n, c \in 0..n}

InitBump ==
    /\ repoKind = "worktree"
    /\ manifestExists = TRUE
    /\ prior_ver \in Versions(MaxComp)
    /\ manifest = Manifest(version_to_str(prior_ver), <<>>)
    /\ commits = <<>>
    /\ tags = {}
    /\ opFiles = "none"
    /\ pc = "VersionRead"
    /\ err = ""
    /\ failedAt = ""
    /\ bump_level \in BumpLevels
    /\ ver = <<>>
    /\ start = Snapshot
    /\ log = <<"check_repo", "read">>
    /\ exitStatus = -1
    /\ runs = 1
    /\ doneRuns = 0
    /\ origin = manifest

SpecBump == InitBump /\ [][BumpVersion]_vars

(* ------------ update_info_toml_version on drawn arguments -------------- *)

Texts(alphabet, n) == UNION {[1..k -> alphabet] : k \in 0..n}

InitUpdate ==
    /\ repoKind = "worktree"
    /\ manifestExists \in BOOLEAN
    /\ manifest \in (IF manifestExists THEN Texts({"0", "1", Dot}, MaxLen) ELSE {<<>>})
    /\ commits = <<>>
    /\ tags = {}
    /\ opFiles = "none"
    /\ pc = "VersionBumped"
    /\ err = ""
    /\ failedAt = ""
    /\ bump_level \in BumpKinds
    /\ prior_ver \in Versions(MaxPriorComp)
    /\ ver = bump_version(prior_ver, bump_level)
    /\ start = Snapshot
    /\ log = <<"check_repo", "read", "bump">>
    /\ exitStatus = -1
    /\ runs = 1
    /\ doneRuns = 0
    /\ origin = manifest

SpecUpdate == InitUpdate /\ [][UpdateInfoTomlVersion]_vars

(* --------- version_to_str then version_from_str on drawn versions ------- *)

\* The small components, and some around a change in the number of digits.
RoundTripComps == (0..MaxRoundTrip) \cup {99, 100, 109, 110, 999, 1000}

InitRoundTrip ==
    /\ repoKind = "worktree"
    /\ manifestExists = TRUE
    /\ manifest = <<>>
    /\ commits = <<>>
    /\ tags = {}
    /\ opFiles = "none"
    /\ pc = "ToStr"
    /\ err = ""
    /\ failedAt = ""
    /\ bump_level = "patch"
    /\ prior_ver = <<>>
    /\ ver \in {<<a, b, c>> : a \in RoundTripComps, b \in RoundTripComps,
                              c \in RoundTripComps}
    /\ start = Snapshot
    /\ log = <<>>
    /\ exitStatus = -1
    /\ runs = 1
    /\ doneRuns = 0
    /\ origin = manifest

\* The text of ver is put where the next step takes it from.
VersionToStr ==
    /\ pc = "ToStr"
    /\ manifest' = version_to_str(ver)
    /\ Goto("FromStr")
    /\ UNCHANGED <<env, commits, tags, opFiles, bump_level, prior_ver, ver,
                   start, log, exitStatus, runs, doneRuns>>

\* The text is parsed back into prior_ver.
VersionFromStr ==
    /\ pc = "FromStr"
    /\ IF version_from_str_ok(manifest)
       THEN /\ prior_ver' = version_from_str(manifest)
            /\ Goto("Returned")
       ELSE /\ Abort("read", "MalformedVersion")
            /\ UNCHANGED prior_ver
    /\ UNCHANGED <<env, manifest, commits, tags, opFiles, bump_level, ver,
                   start, log, exitStatus, runs, doneRuns>>

NextRoundTrip == VersionToStr \/ VersionFromStr

SpecRoundTrip == InitRoundTrip /\ [][NextRoundTrip]_vars

(* ============================== claims ================================= *)

StepOrder == <<"check_repo", "read", "bump", "write", "commit_version",
               "tag_version", "build", "commit_release">>

IsPrefix(a, b) == Len(a) <= Len(b) /\ SubSeq(b, 1, Len(a)) = a

Entered(step) == \E i \in 1..Len(log) : log[i] = step

\* Overlapping occurrences included.
Occurrences(s, sub) ==
    Cardinality({i \in 1..Len(s) :
        i + Len(sub) - 1 <= Len(s) /\ SubSeq(s, i, i + Len(sub) - 1) = sub})

\* The errors each listed step can end the run with.
StepErrors(step) ==
    CASE step = "check_repo" -> {"NotARepository"}
      [] step = "read" -> {"MissingManifest", "KeyError", "MalformedVersion"}
      [] step = "bump" -> {"InvalidBumpKind"}
      [] step = "write" -> {"MissingManifest", "VersionNotFound", "AmbiguousVersion"}
      [] step = "commit_version" -> {"GitCommandError"}
      [] step = "tag_version" -> {"TagAlreadyExists"}
      [] step = "build" -> {"UnicodeDecodeError"}
      [] step = "commit_release" -> {"GitCommandError"}
      [] OTHER -> {}

C1_State ==
    /\ IsPrefix(log, StepOrder)
    /\ (err # "" \/ failedAt # "") <=> (pc = "Aborted")
    /\ pc = "Aborted" =>
          /\ log # <<>>
          /\ failedAt = log[Len(log)]
          /\ err \in StepErrors(failedAt)
    /\ pc = "Done" => log = StepOrder

C1_Step ==
    pc = "Aborted" =>
        /\ pc' \in {"Aborted", "Start"}
        /\ pc' = "Aborted" => log' = log /\ err' = err /\ failedAt' = failedAt
        /\ manifest' = manifest /\ commits' = commits /\ tags' = tags
        /\ exitStatus' \in {exitStatus, -1}

\* C1: a step that fails ends the run in Aborted with that step's error, the
\* failed step is the last one the run entered and nothing is executed after
\* it; a run is Done only after every step in order.
C1_FailFast == [](C1_State) /\ [][C1_Step]_vars

C1_Witness ==
    /\ pc = "Aborted"
    /\ failedAt = "tag_version"
    /\ log = SubSeq(StepOrder, 1, 6)
    /\ Len(commits) = Len(start.commits) + 1

\* C2: outside a repository, or in a bare one, the run aborts with
\* NotARepository at the repository check: nothing is read, the manifest is
\* as it was, and there is no commit, tag or build.
C2_NotARepository ==
    repoKind # "worktree" =>
        /\ pc \in {"Start", "Aborted"}
        /\ pc = "Aborted" =>
              err = "NotARepository" /\ failedAt = "check_repo"
                  /\ log = <<"check_repo">>
        /\ manifest = start.manifest /\ manifest = origin
        /\ commits = <<>> /\ tags = start.tags
        /\ prior_ver = <<>> /\ ver = <<>> /\ exitStatus = -1

C2_Witness ==
    repoKind = "bare" /\ manifestExists /\ pc = "Aborted" /\ runs = 2

\* C3: bump_version adds one to the bumped component, zeroes every component
\* below it and keeps every component above it.
C3_Bump ==
    pc = "VersionBumped" =>
        /\ bump_level = "major" =>
              ver[1] = prior_ver[1] + 1 /\ ver[2] = 0 /\ ver[3] = 0
        /\ bump_level = "minor" =>
              ver[1] = prior_ver[1] /\ ver[2] = prior_ver[2] + 1 /\ ver[3] = 0
        /\ bump_level = "patch" =>
              ver[1] = prior_ver[1] /\ ver[2] = prior_ver[2]
                  /\ ver[3] = prior_ver[3] + 1
        /\ bump_level \in BumpKinds /\ Len(ver) = 3

C3_Witness ==
    /\ pc = "VersionBumped"
    /\ bump_level = "minor"
    /\ prior_ver = <<1, 2, 3>>
    /\ ver = <<1, 3, 0>>

\* C4: update_info_toml_version changes the manifest only when the prior
\* version's string occurs exactly once: none gives VersionNotFound, two or
\* more (overlapping ones too) give AmbiguousVersion, and both leave the
\* manifest as it was.
C4_Guard ==
    (manifestExists /\ Entered("write")) =>
        LET n == Occurrences(start.manifest, version_to_str(prior_ver)) IN
        /\ n = 0 => pc = "Aborted" /\ err = "VersionNotFound"
                        /\ manifest = start.manifest
        /\ n >= 2 => pc = "Aborted" /\ err = "AmbiguousVersion"
                        /\ manifest = start.manifest
        /\ n = 1 => pc # "Aborted"
        /\ manifest # start.manifest => n = 1

C4_Witness ==
    /\ pc = "Aborted"
    /\ err = "AmbiguousVersion"
    /\ \E i, j \in Positions(manifest, version_to_str(prior_ver)) :
          i < j /\ j < i + Len(version_to_str(prior_ver))

\* The text with the piece of length n at offset i replaced by new.
Spliced(s, i, n, new) == SubSeq(s, 1, i) \o new \o SubSeq(s, i + n + 1, Len(s))

\* C5 as amended: a successful update replaces exactly the one occurrence, so
\* the result holds the new version's string where the prior one was and is
\* otherwise the text before; any occurrence of the prior string in the
\* result overlaps the inserted string.
C5_ReplacesOne ==
    pc = "ManifestWritten" =>
        LET old == version_to_str(prior_ver)
            new == version_to_str(ver)
            i == CHOOSE k \in 0..Len(start.manifest) :
                     OccursAt(start.manifest, old, k)
        IN  /\ Occurrences(start.manifest, old) = 1
            /\ manifest = Spliced(start.manifest, i, Len(old), new)
            /\ OccursAt(manifest, new, i)
            /\ \A k \in 0..Len(manifest) :
                  OccursAt(manifest, old, k) =>
                      k < i + Len(new) /\ i < k + Len(old)

C5_Witness ==
    /\ pc = "ManifestWritten"
    /\ bump_level = "patch"
    /\ prior_ver = <<0, 1, 0>>
    /\ start.manifest = <<"1", "0", ".", "1", ".", "0", ".">>
    /\ manifest = <<"1", "0", ".", "1", ".", "1", ".">>

\* C5 as stated: after a successful update the manifest holds the new
\* version's string and no occurrence of the prior one.
C5_NoPriorLeft ==
    pc = "ManifestWritten" =>
        /\ Contains(manifest, version_to_str(ver))
        /\ Occurrences(manifest, version_to_str(prior_ver)) = 0

\* The version read_info_toml_version gives for this text, as a string.
CurrentStr(text) == version_to_str(read_info_toml_version(text))

\* C6 as stated: after any sequence of successful runs from a manifest with
\* exactly one occurrence of its version's string, the manifest holds
\* exactly one occurrence of its current version's string.
C6_AlwaysUnique ==
    ( /\ pc = "Done"
      /\ doneRuns = runs
      /\ read_error(TRUE, origin) = ""
      /\ Occurrences(origin, CurrentStr(origin)) = 1 ) =>
        /\ read_error(TRUE, manifest) = ""
        /\ Occurrences(manifest, CurrentStr(manifest)) = 1

\* C6 as amended: every successful run found exactly one occurrence of the
\* string of the version it read, and leaves a manifest holding at least one
\* occurrence of the string of the version it wrote.
C6_UniqueBeforeWrite ==
    pc = "Done" =>
        /\ read_error(TRUE, start.manifest) = ""
        /\ prior_ver = read_info_toml_version(start.manifest)
        /\ Occurrences(start.manifest, version_to_str(prior_ver)) = 1
        /\ Occurrences(manifest, version_to_str(ver)) >= 1

C6_Witness ==
    /\ pc = "Done"
    /\ doneRuns = runs
    /\ runs = 2
    /\ Occurrences(origin, CurrentStr(origin)) = 1
    /\ Occurrences(manifest, version_to_str(ver)) = 2

\* C7: the build never ends the run: a run that entered the build goes on to
\* the artifact commit, and no run is Aborted at the build.
C7_BuildNeverAborts ==
    /\ pc = "Aborted" => failedAt # "build"
    /\ (Entered("build") /\ pc \in {"Done", "Aborted"}) =>
          Entered("commit_release")

\* C8: within a run the manifest is written before any commit or tag, the
\* version commit comes before the tag, both come before the build, and the
\* build comes before the artifact commit.
C8_Order ==
    LET n0 == Len(start.commits)
        s == version_to_str(ver)
    IN  /\ IsPrefix(log, StepOrder)
        /\ Len(commits) <= n0 + 2
        /\ (commits # start.commits \/ tags # start.tags) =>
              /\ Entered("write")
              /\ manifest # start.manifest
              /\ Contains(manifest, s)
        /\ tags # start.tags =>
              /\ Len(commits) >= n0 + 1
              /\ commits[n0 + 1].message = <<"Version: ", s>>
        /\ (Entered("build") \/ exitStatus # -1) =>
              /\ Len(commits) >= n0 + 1
              /\ commits[n0 + 1].message = <<"Version: ", s>>
              /\ [name |-> s, commit |-> n0 + 1] \in tags
        /\ Len(commits) = n0 + 2 =>
              /\ Entered("build")
              /\ exitStatus # -1
              /\ commits[n0 + 2].message = <<"Release: ", s>>

C8_Witness ==
    /\ pc = "Done"
    /\ runs = 2
    /\ Len(start.commits) = 2
    /\ Len(commits) = 4
    /\ exitStatus = 1

\* C9: a run that ends in Done has added exactly a commit of the manifest
\* and a commit of the artifacts, both with the new version's string in the
\* message, and one tag of that name on the first of them; the manifest
\* holds that string.
C9_DoneEffects ==
    pc = "Done" =>
        LET n0 == Len(start.commits)
            s == version_to_str(
                     bump_version(read_info_toml_version(start.manifest), bump_level))
        IN  /\ Len(commits) = n0 + 2
            /\ SubSeq(commits, 1, n0) = start.commits
            /\ commits[n0 + 1].message = <<"Version: ", s>>
            /\ commits[n0 + 1].paths = "info.toml"
            /\ commits[n0 + 2].message = <<"Release: ", s>>
            /\ commits[n0 + 2].paths = "./*.op"
            /\ s \notin TagNames(start.tags)
            /\ tags = start.tags \cup {[name |-> s, commit |-> n0 + 1]}
            /\ Contains(manifest, s)
            /\ commits[n0 + 1].manifest = manifest

C9_Witness ==
    /\ pc = "Done"
    /\ bump_level = "minor"
    /\ start.manifest = Manifest(V(0, 9, 9), <<>>)
    /\ manifest = Manifest(V(0, 10, 0), <<>>)
    /\ tags = start.tags \cup {[name |-> V(0, 10, 0), commit |-> 1]}

\* A run whose version commit step has run while a tag named with the new
\* version's string was there already.
TagCollision ==
    /\ Entered("commit_version")
    /\ pc # "ManifestCommitted"
    /\ version_to_str(ver) \in TagNames(start.tags)

\* C10 as stated: on such a collision the step fails with TagAlreadyExists,
\* the tag stays where it was, the run is Aborted, and there is no build and
\* no artifact commit.
C10_AlwaysTagAlreadyExists ==
    TagCollision =>
        /\ pc = "Aborted"
        /\ err = "TagAlreadyExists"
        /\ tags = start.tags
        /\ ~Entered("build") /\ ~Entered("commit_release")

\* C10 as amended: on such a collision the step fails, with TagAlreadyExists
\* once the manifest commit is made and with the commit's own error when the
\* commit fails first; the tag stays where it was, the run is Aborted, and
\* there is no build and no artifact commit.
C10_TagCollisionAborts ==
    TagCollision =>
        /\ pc = "Aborted"
        /\ tags = start.tags
        /\ ~Entered("build") /\ ~Entered("commit_release")
        /\ exitStatus = -1
        /\ \/ /\ failedAt = "tag_version"
              /\ err = "TagAlreadyExists"
              /\ Len(commits) = Len(start.commits) + 1
           \/ /\ failedAt = "commit_version"
              /\ err = "GitCommandError"
              /\ commits = start.commits

C10_Witness ==
    /\ pc = "Aborted"
    /\ err = "TagAlreadyExists"
    /\ [name |-> version_to_str(ver), commit |-> 0] \in tags
    /\ Len(commits) = Len(start.commits) + 1

\* C11: nothing is rolled back.  A run aborted at the version commit leaves
\* the manifest written; aborted at the tag it leaves also the manifest commit,
\* untagged; aborted at the build or at the artifact commit it leaves the
\* manifest, the manifest commit and the tag, and no artifact commit.
C11_NoRollback ==
    pc = "Aborted" =>
        LET n0 == Len(start.commits)
            s == version_to_str(ver)
            written == /\ manifest # start.manifest
                       /\ Contains(manifest, s)
            committed == /\ Len(commits) = n0 + 1
                         /\ SubSeq(commits, 1, n0) = start.commits
                         /\ commits[n0 + 1].message = <<"Version: ", s>>
            tagged == tags = start.tags \cup {[name |-> s, commit |-> n0 + 1]}
        IN  /\ failedAt = "commit_version" =>
                  written /\ commits = start.commits /\ tags = start.tags
            /\ failedAt = "tag_version" =>
                  /\ written /\ committed /\ tags = start.tags
                  /\ \A t \in tags : t.commit # n0 + 1
            /\ failedAt = "build" => written /\ committed /\ tagged
            /\ failedAt = "commit_release" => written /\ committed /\ tagged

C11_Witness ==
    /\ pc = "Aborted"
    /\ failedAt = "commit_release"
    /\ opFiles = "none"
    /\ exitStatus = 0
    /\ Len(commits) = Len(start.commits) + 1
    /\ manifest # start.manifest

\* C13: the repository check, the read and the bump change neither the
\* manifest nor the repository, and a run aborted at one of them or at the
\* manifest write leaves manifest, commits and tags as they were at Start.
C13_EarlyAbortsChangeNothing ==
    ( \/ pc \in {"Start", "RepoChecked", "VersionRead", "VersionBumped"}
      \/ pc = "Aborted" /\ failedAt \in {"check_repo", "read", "bump", "write"} ) =>
        /\ manifest = start.manifest
        /\ commits = start.commits
        /\ tags = start.tags
        /\ exitStatus = -1

C13_Witness ==
    /\ pc = "Aborted"
    /\ err = "AmbiguousVersion"
    /\ runs = 2
    /\ Len(commits) = 2
    /\ manifest = start.manifest

\* C12: parsing the text of a version gives the version back.
C12_RoundTrip ==
    pc \notin {"ToStr", "FromStr"} =>
        /\ pc = "Returned"
        /\ prior_ver = ver

C12_Witness ==
    /\ pc = "Returned"
    /\ ver = <<10, 0, 109>>
    /\ manifest = <<"1", "0", ".", "0", ".", "1", "0", "9">>
    /\ prior_ver = <<10, 0, 109>>

\* C14: a run writes the manifest at most once, and the write advances the
\* manifest's version by exactly one bump; a run after one that wrote
\* version v' targets bump(v', k) and never v' again.
C14_OneBumpPerRun ==
    /\ Cardinality({i \in 1..Len(log) : log[i] = "write"}) <= 1
    /\ manifest # start.manifest =>
          /\ read_error(TRUE, manifest) = ""
          /\ read_info_toml_version(manifest)
                 = bump_version(read_info_toml_version(start.manifest), bump_level)
    /\ (start.wrote # <<>> /\ ver # <<>>) =>
          /\ ver # start.wrote
          /\ ver = bump_version(start.wrote, bump_level)

VersionLess(a, b) ==
    \/ a[1] < b[1]
    \/ a[1] = b[1] /\ a[2] < b[2]
    \/ a[1] = b[1] /\ a[2] = b[2] /\ a[3] < b[3]

\* The tags that were there before the tool ran are all below the version
\* the manifest had then.
TagsBelowOrigin ==
    /\ read_error(TRUE, origin) = ""
    /\ \A t \in {u \in tags : u.commit = 0} :
          /\ version_from_str_ok(t.name)
          /\ VersionLess(version_from_str(t.name), read_info_toml_version(origin))

\* C15: every bump gives a larger version, so from tags that are all below
\* the manifest's version no run finds its tag name taken, and the tags are
\* pairwise distinct.
C15_NoTagCollision ==
    /\ ver # <<>> => VersionLess(prior_ver, ver)
    /\ TagsBelowOrigin =>
          /\ err # "TagAlreadyExists"
          /\ \A t1, t2 \in tags : t1.name = t2.name => t1 = t2

Rank(p) ==
    CASE p = "Start" -> 0
      [] p = "RepoChecked" -> 1
      [] p = "VersionRead" -> 2
      [] p = "VersionBumped" -> 3
      [] p = "ManifestWritten" -> 4
      [] p = "ManifestCommitted" -> 5
      [] p = "VersionCommitted" -> 6
      [] p = "Built" -> 7
      [] OTHER -> 8

C16_Forward ==
    \/ pc \in {"Done", "Aborted"} /\ pc' \in {pc, "Start"}
    \/ /\ pc \notin {"Done", "Aborted"}
       /\ Rank(pc') > Rank(pc)
       /\ Len(log') = Len(log) + 1

\* C16: every run ends in Done or Aborted, given that each call returns; a
\* run only moves forward through the steps, each entered at most once.
C16_Terminates ==
    /\ (pc = "Start") ~> (pc \in {"Done", "Aborted"})
    /\ [](IsPrefix(log, StepOrder))
    /\ [][C16_Forward]_vars

C16_Witness ==
    /\ pc = "Done"
    /\ runs = 2
    /\ doneRuns = 1
    /\ log = StepOrder

====
